---- MODULE Spec2Model ----
(***************************************************************************)
(* Model of the magento2-worker-daemon supervisor.                         *)
(*                                                                         *)
(* The worker units are the WorkerProcess values of src/worker.rs          *)
(* (run_worker, ensure_running, restart, terminate, is_running,            *)
(* try_stop_gracefully); the supervisor loop that drives them is main() of *)
(* src/main.rs: start one unit per consumer, install the termination flag, *)
(* poll every unit until the flag is set, then terminate every unit.       *)
(* main.rs writes that loop over its own single-process WorkerProcess      *)
(* (run_consumer, is_running, restart); here the loop is kept as written   *)
(* and each call goes to its counterpart in worker.rs: run_worker for      *)
(* run_consumer, ensure_running for `if !is_running() { restart }`.        *)
(*                                                                         *)
(* main.rs's own WorkerProcess (run_consumer, is_running, restart,         *)
(* terminate: one process per consumer) is modelled next to it, by the     *)
(* Main... actions and SpecMain.                                           *)
(*                                                                         *)
(* One step of the supervisor is one system call (spawn, try_wait, the     *)
(* SIGTERM command, kill, wait) or one loop decision; the children and the *)
(* signal that sets the flag are environment steps that interleave freely. *)
(***************************************************************************)
EXTENDS Integers, Sequences, FiniteSets, TLC

\* ------------------------------------------------------------------ bounds
\* Children that exit on their own accord in one behaviour.
MaxExits == 1
\* try_wait calls that return Err in one behaviour.
MaxWaitErrs == 1
\* Calls a client of the WorkerProcess API makes in one behaviour (SpecApi).
MaxCalls == 2

\* ------------------------------------------------------- program constants
PROCESS_GRACEFUL_KILL_PERIOD == 500
PROCESS_GRACEFUL_POLL_RESOLUTION == 20
\* config.rs: default_max_messages
DefaultMaxMessages == 10000

\* ------------------------------------------------------------------ inputs
\* The consumer names read_consumer_list returns, in order.
Consumers == <<"A", "B">>
NUnits == Len(Consumers)
Units == 1..NUnits
\* The multiple_processes values MagentoConsumerConfig::validate lets through
\* (it rejects only negative ones), up to three instances.
ProcessCounts == {0, 1, 2, 3}
\* The multiple_processes values a configuration file can hold: those, and a
\* negative one.
ConfigValues == ProcessCounts \cup {-1}
\* The key sets of multiple_processes: no consumer, or one of them, has an
\* entry; a consumer without one runs as a single instance.
ConfiguredSets == {S \in SUBSET {Consumers[k] : k \in 1..Len(Consumers)} : Cardinality(S) <= 1}
LargestCount == CHOOSE n \in ProcessCounts : \A m \in ProcessCounts : m <= n
\* Every spawn takes a fresh process identifier; this many can be needed.
MaxPid == NUnits + (1 + MaxExits + MaxWaitErrs + MaxCalls) * LargestCount
Pid == 1..MaxPid

VARIABLES
    mp,            \* consumer_config.multiple_processes: a partial map name -> count
    processes,     \* unit -> WorkerProcess.processes (a sequence of pids)
    st,            \* pid -> "unborn" | "alive" | "termed" (alive, SIGTERM delivered)
                   \*        | "zombie" (exited, unreaped) | "reaped"
    nextPid,       \* the next fresh process identifier
    term,          \* the termination flag (main.rs: term)
    pc,            \* the supervisor's position
    ctx,           \* which operation the current step belongs to
    cur,           \* the unit the supervisor is working on
    idx,           \* the index of the process handle it is working on
    waiting_time,  \* try_stop_gracefully: waiting_time
    newp,          \* run_worker: the local vector `processes`
    errs,          \* try_wait calls that have returned Err
    exits,         \* children that have exited on their own accord
    old,           \* the handles the unit held when ensure_running / terminate was called
    deadAtCall,    \* whether some instance of the unit had exited when it was called
    reapedAtCall,  \* whether every instance had been waited for when it was called
    stale,         \* the value of the flag read by the last evaluation of the loop condition
    mode,          \* "daemon": main() drives the units; "api": a client calls the API
    calls,         \* API calls made so far
    argv,          \* pid -> the arguments its command was spawned with
    max_messages   \* consumer_config.max_messages

vars == <<mp, processes, st, nextPid, term, pc, ctx, cur, idx, waiting_time,
          newp, errs, exits, old, deadAtCall, reapedAtCall, stale, mode, calls, argv, max_messages>>

\* ----------------------------------------------------------------- helpers
Range(s) == {s[k] : k \in 1..Len(s)}

\* A run_worker that ignores the configured count.
NumberOfProcesses_AlwaysOne(u) == 1

\* run_worker: number_of_processes
NumberOfProcesses(u) ==
    IF Consumers[u] \in DOMAIN mp THEN mp[Consumers[u]] ELSE 1

\* i32 / u32 to_string: the decimal numeral of a natural number.
Digit(d) ==
    CASE d = 0 -> "0" [] d = 1 -> "1" [] d = 2 -> "2" [] d = 3 -> "3" [] d = 4 -> "4"
      [] d = 5 -> "5" [] d = 6 -> "6" [] d = 7 -> "7" [] d = 8 -> "8" [] d = 9 -> "9"

RECURSIVE to_string(_)
to_string(n) == IF n < 10 THEN Digit(n) ELSE to_string(n \div 10) \o Digit(n % 10)

\* A run_worker that marks every instance as a single-threaded one.
CommandArgs_AlwaysSingleThread(u, i) ==
    <<"queue:consumers:start", Consumers[u], "--max-messages", to_string(max_messages),
      "--single-thread">>

\* run_worker: the arguments of the command of instance i (counted from 0)
\* of unit u.
CommandArgs(u, i) ==
    <<"queue:consumers:start", Consumers[u], "--max-messages", to_string(max_messages)>>
    \o (IF NumberOfProcesses(u) > 1
        THEN <<"--multi-process", to_string(i)>>
        ELSE <<"--single-thread">>)

\* The handle try_stop_gracefully / is_running is applied to.
Handle == processes[cur][idx]

\* std::process::Child::try_wait on pid p: Ok(None) for a running child,
\* Ok(Some(status)) for one that has exited (a cached status once reaped),
\* or Err, of which the code takes no state for granted.
Alive(p) == st[p] \in {"alive", "termed"}

TryWaitOutcomes(p) ==
    (IF Alive(p) THEN {"running"} ELSE {"exited"})
    \cup (IF st[p] # "reaped" /\ errs < MaxWaitErrs THEN {"error"} ELSE {})

\* An is_running that takes every Ok of try_wait for a running process.
IsRunning_AnyOk(r) == r # "error"

\* is_running: only Ok(None) is "running"; Ok(Some(_)) and Err are not.
IsRunning(r) == r = "running"

\* What the try_wait call itself changes: a successful wait on an exited
\* child reaps it.
TryWaitEffect(p, r) ==
    /\ st' = IF r = "exited" THEN [st EXCEPT ![p] = "reaped"] ELSE st
    /\ errs' = IF r = "error" THEN errs + 1 ELSE errs

\* --------------------------------------------------------------------- Init
\* The state main() starts run_worker in, whatever the configuration.
InitRest ==
    /\ processes = [u \in Units |-> <<>>]
    /\ st = [p \in Pid |-> "unborn"]
    /\ nextPid = 1
    /\ term = FALSE
    /\ pc = "config"
    /\ ctx = "startup"
    /\ cur = 1
    /\ idx = 1
    /\ waiting_time = 0
    /\ newp = <<>>
    /\ errs = 0
    /\ exits = 0
    /\ old = <<>>
    /\ deadAtCall = FALSE
    /\ reapedAtCall = FALSE
    /\ stale = FALSE
    /\ calls = 0
    /\ argv = [p \in Pid |-> <<>>]

InitCommon ==
    /\ mp \in UNION {[S -> ConfigValues] : S \in ConfiguredSets}
    /\ InitRest

Init == InitCommon /\ mode = "daemon" /\ max_messages = DefaultMaxMessages

InitApi == InitCommon /\ mode = "api" /\ max_messages = DefaultMaxMessages

\* ------------------------------------------------------- control transfers
\* ensure_running(u) is entered: the handles and their state at the call.
EnterEnsure(u) ==
    /\ pc' = "ensure"
    /\ ctx' = "ensure"
    /\ cur' = u
    /\ idx' = 1
    /\ old' = processes[u]
    /\ deadAtCall' = \E k \in 1..Len(processes[u]) : ~Alive(processes[u][k])
    /\ reapedAtCall' = \A k \in 1..Len(processes[u]) : st[processes[u][k]] = "reaped"

\* terminate(u) is entered on its own (not as part of restart).
EnterTerminate(u) ==
    /\ pc' = "stop"
    /\ ctx' = "terminate"
    /\ cur' = u
    /\ idx' = 1
    /\ old' = processes[u]
    /\ deadAtCall' = \E k \in 1..Len(processes[u]) : ~Alive(processes[u][k])
    /\ reapedAtCall' = \A k \in 1..Len(processes[u]) : st[processes[u][k]] = "reaped"

\* main.rs: the body of `for process in &mut processes` is done for unit cur.
AfterEnsure ==
    IF mode = "api"
    THEN pc' = "idle" /\ UNCHANGED <<ctx, cur, idx, old, deadAtCall, reapedAtCall>>
    ELSE IF cur < NUnits
         THEN EnterEnsure(cur + 1)
         ELSE pc' = "sleep" /\ UNCHANGED <<ctx, cur, idx, old, deadAtCall, reapedAtCall>>

\* -------------------------------------------------------------------- config
\* MagentoConsumerConfig::validate, on the cron_run setting and the
\* multiple_processes map.
validate(cron_run, m) ==
    IF cron_run
    THEN "Err"
    ELSE IF \E k \in DOMAIN m : m[k] < 0 THEN "Err" ELSE "Ok"

\* MagentoConsumerConfig::new: the configuration is read and validated; an
\* invalid one ends the program before any worker is started.
ValidateConfig ==
    /\ pc = "config"
    /\ \E cron_run \in BOOLEAN :
        pc' = IF validate(cron_run, mp) = "Ok" THEN "run_worker" ELSE "config_error"
    /\ UNCHANGED <<mp, processes, st, nextPid, term, ctx, cur, idx, waiting_time,
                   newp, errs, exits, old, deadAtCall, reapedAtCall, stale, mode, calls, argv, max_messages>>

\* ---------------------------------------------------------------- run_worker
\* One iteration of `for i in 0..number_of_processes`: spawn succeeds.
RunWorkerSpawn ==
    /\ pc = "run_worker"
    /\ Len(newp) < NumberOfProcesses(cur)
    /\ nextPid <= MaxPid
    /\ newp' = Append(newp, nextPid)
    /\ st' = [st EXCEPT ![nextPid] = "alive"]
    /\ nextPid' = nextPid + 1
    /\ argv' = [argv EXCEPT ![nextPid] = CommandArgs(cur, Len(newp))]
    /\ UNCHANGED <<mp, processes, term, pc, ctx, cur, idx, waiting_time,
                   errs, exits, old, deadAtCall, reapedAtCall, stale, mode, calls, max_messages>>

\* spawn() returns Err: expect() panics, the supervisor dies, the handles are
\* dropped (dropping a Child neither kills nor waits for it).
RunWorkerSpawnFails ==
    /\ pc = "run_worker"
    /\ Len(newp) < NumberOfProcesses(cur)
    /\ pc' = "panic"
    /\ UNCHANGED <<mp, processes, st, nextPid, term, ctx, cur, idx, waiting_time,
                   newp, errs, exits, old, deadAtCall, reapedAtCall, stale, mode, calls, argv, max_messages>>

\* main.rs: consumers.iter().map(run_worker).collect(): the unit is built from
\* the spawned handles; after the last one the flag is registered and the poll
\* loop is entered.
StartupCollect ==
    /\ pc = "run_worker"
    /\ ctx = "startup"
    /\ Len(newp) >= NumberOfProcesses(cur)
    /\ processes' = [processes EXCEPT ![cur] = newp]
    /\ newp' = <<>>
    /\ IF cur < NUnits
       THEN cur' = cur + 1 /\ UNCHANGED <<pc, ctx>>
       ELSE /\ cur' = 1
            /\ ctx' = "ensure"
            /\ pc' = IF mode = "api" THEN "idle" ELSE "check"
    /\ UNCHANGED <<mp, st, nextPid, term, idx, waiting_time,
                   errs, exits, old, deadAtCall, reapedAtCall, stale, mode, calls, argv, max_messages>>

\* A restart that pushes the new handles onto the old ones.
RestartAssign_Extends ==
    /\ pc = "run_worker"
    /\ ctx = "restart"
    /\ Len(newp) >= NumberOfProcesses(cur)
    /\ processes' = [processes EXCEPT ![cur] = @ \o newp]
    /\ newp' = <<>>
    /\ AfterEnsure
    /\ UNCHANGED <<mp, st, nextPid, term, waiting_time,
                   errs, exits, stale, mode, calls, argv, max_messages>>

\* restart: self.processes = run_worker(..).processes
RestartAssign ==
    /\ pc = "run_worker"
    /\ ctx = "restart"
    /\ Len(newp) >= NumberOfProcesses(cur)
    /\ processes' = [processes EXCEPT ![cur] = newp]
    /\ newp' = <<>>
    /\ AfterEnsure
    /\ UNCHANGED <<mp, st, nextPid, term, waiting_time,
                   errs, exits, stale, mode, calls, argv, max_messages>>

\* ------------------------------------------------------------ ensure_running
\* One is_running call of `self.processes.iter_mut().all(|p| p.is_running())`;
\* all() stops at the first false, and then restart begins with terminate.
EnsureRunningIsRunning ==
    /\ pc = "ensure"
    /\ idx <= Len(processes[cur])
    /\ \E r \in TryWaitOutcomes(Handle) :
        /\ TryWaitEffect(Handle, r)
        /\ IF IsRunning(r)
           THEN idx' = idx + 1 /\ UNCHANGED <<pc, ctx>>
           ELSE idx' = 1 /\ pc' = "stop" /\ ctx' = "restart"
    /\ UNCHANGED <<mp, processes, nextPid, term, cur, waiting_time,
                   newp, exits, old, deadAtCall, reapedAtCall, stale, mode, calls, argv, max_messages>>

\* every is_running call returned true: ensure_running does nothing.
EnsureRunningHealthy ==
    /\ pc = "ensure"
    /\ idx > Len(processes[cur])
    /\ AfterEnsure
    /\ UNCHANGED <<mp, processes, st, nextPid, term, waiting_time,
                   newp, errs, exits, stale, mode, calls, argv, max_messages>>

\* ----------------------------------------------- terminate / try_stop_gracefully
\* A try_stop_gracefully without the early return.
TryStopGracefullyCheck_NoEarlyReturn ==
    /\ pc = "stop"
    /\ idx <= Len(processes[cur])
    /\ pc' = "sigterm"
    /\ UNCHANGED <<mp, processes, st, nextPid, term, ctx, cur, idx, waiting_time,
                   newp, errs, exits, old, deadAtCall, reapedAtCall, stale, mode, calls, argv, max_messages>>

\* try_stop_gracefully: `if !self.is_running() { return; }`
TryStopGracefullyCheck ==
    /\ pc = "stop"
    /\ idx <= Len(processes[cur])
    /\ \E r \in TryWaitOutcomes(Handle) :
        /\ TryWaitEffect(Handle, r)
        /\ IF IsRunning(r)
           THEN pc' = "sigterm" /\ idx' = idx
           ELSE pc' = "stop" /\ idx' = idx + 1
    /\ UNCHANGED <<mp, processes, nextPid, term, ctx, cur, waiting_time,
                   newp, exits, old, deadAtCall, reapedAtCall, stale, mode, calls, argv, max_messages>>

\* A SIGTERM addressed to the whole process group instead of the one child.
SendSigterm_ProcessGroup ==
    /\ pc = "sigterm"
    /\ st' = [p \in Pid |-> IF st[p] = "alive" THEN "termed" ELSE st[p]]
    /\ waiting_time' = 0
    /\ pc' = "grace"
    /\ UNCHANGED <<mp, processes, nextPid, term, ctx, cur, idx,
                   newp, errs, exits, old, deadAtCall, reapedAtCall, stale, mode, calls, argv, max_messages>>

\* terminate_process_child: `kill -SIGTERM <pid>`; then waiting_time = 0.
SendSigterm ==
    /\ pc = "sigterm"
    /\ st' = IF st[Handle] = "alive" THEN [st EXCEPT ![Handle] = "termed"] ELSE st
    /\ waiting_time' = 0
    /\ pc' = "grace"
    /\ UNCHANGED <<mp, processes, nextPid, term, ctx, cur, idx,
                   newp, errs, exits, old, deadAtCall, reapedAtCall, stale, mode, calls, argv, max_messages>>

\* One evaluation of `while self.is_running()` and of the body's test: sleep
\* one poll resolution, or go and force-kill once the grace period is used up.
GraceLoop ==
    /\ pc = "grace"
    /\ \E r \in TryWaitOutcomes(Handle) :
        /\ TryWaitEffect(Handle, r)
        /\ IF IsRunning(r)
           THEN IF waiting_time >= PROCESS_GRACEFUL_KILL_PERIOD
                THEN pc' = "kill" /\ UNCHANGED waiting_time
                ELSE /\ pc' = "grace"
                     /\ waiting_time' = waiting_time + PROCESS_GRACEFUL_POLL_RESOLUTION
           ELSE pc' = "reap" /\ UNCHANGED waiting_time
    /\ UNCHANGED <<mp, processes, nextPid, term, ctx, cur, idx,
                   newp, exits, old, deadAtCall, reapedAtCall, stale, mode, calls, argv, max_messages>>

\* self.kill(): SIGKILL; the process is dead from here on (unreaped).
ForceKill ==
    /\ pc = "kill"
    /\ st' = IF Alive(Handle) THEN [st EXCEPT ![Handle] = "zombie"] ELSE st
    /\ pc' = "reap"
    /\ UNCHANGED <<mp, processes, nextPid, term, ctx, cur, idx, waiting_time,
                   newp, errs, exits, old, deadAtCall, reapedAtCall, stale, mode, calls, argv, max_messages>>

\* self.wait(): blocks until the process has exited, then reaps it.
Reap ==
    /\ pc = "reap"
    /\ ~Alive(Handle)
    /\ st' = [st EXCEPT ![Handle] = "reaped"]
    /\ pc' = "stop"
    /\ idx' = idx + 1
    /\ waiting_time' = 0
    /\ UNCHANGED <<mp, processes, nextPid, term, ctx, cur,
                   newp, errs, exits, old, deadAtCall, reapedAtCall, stale, mode, calls, argv, max_messages>>

\* A terminate that empties the unit's handle sequence when it is done.
TerminateReturn_ClearsHandles ==
    /\ pc = "stop"
    /\ idx > Len(processes[cur])
    /\ IF ctx = "restart"
       THEN pc' = "run_worker" /\ UNCHANGED <<ctx, cur, idx, old, deadAtCall, reapedAtCall>>
       ELSE IF mode = "api"
            THEN pc' = "idle" /\ UNCHANGED <<ctx, cur, idx, old, deadAtCall, reapedAtCall>>
            ELSE IF cur < NUnits
                 THEN EnterTerminate(cur + 1)
                 ELSE pc' = "done" /\ UNCHANGED <<ctx, cur, idx, old, deadAtCall, reapedAtCall>>
    /\ processes' = [processes EXCEPT ![cur] = <<>>]
    /\ UNCHANGED <<mp, st, nextPid, term, waiting_time,
                   newp, errs, exits, stale, mode, calls, argv, max_messages>>

\* terminate's for loop is over.  In restart, run_worker follows; in the
\* shutdown loop of main, the next unit follows, and after the last one main
\* returns.
TerminateReturn ==
    /\ pc = "stop"
    /\ idx > Len(processes[cur])
    /\ IF ctx = "restart"
       THEN pc' = "run_worker" /\ UNCHANGED <<ctx, cur, idx, old, deadAtCall, reapedAtCall>>
       ELSE IF mode = "api"
            THEN pc' = "idle" /\ UNCHANGED <<ctx, cur, idx, old, deadAtCall, reapedAtCall>>
            ELSE IF cur < NUnits
                 THEN EnterTerminate(cur + 1)
                 ELSE pc' = "done" /\ UNCHANGED <<ctx, cur, idx, old, deadAtCall, reapedAtCall>>
    /\ UNCHANGED <<mp, processes, st, nextPid, term, waiting_time,
                   newp, errs, exits, stale, mode, calls, argv, max_messages>>

\* ---------------------------------------------------------------- main loop
\* A loop condition that does not look at the flag.
MainLoopCheck_IgnoresFlag ==
    /\ pc = "check"
    /\ stale' = term
    /\ EnterEnsure(1)
    /\ UNCHANGED <<mp, processes, st, nextPid, term, waiting_time,
                   newp, errs, exits, mode, calls, argv, max_messages>>

\* `while !term.load(..)`: read the flag; poll the units, or leave the loop
\* and terminate them in the order they were created.
MainLoopCheck ==
    /\ pc = "check"
    /\ stale' = term
    /\ IF term THEN EnterTerminate(1) ELSE EnterEnsure(1)
    /\ UNCHANGED <<mp, processes, st, nextPid, term, waiting_time,
                   newp, errs, exits, mode, calls, argv, max_messages>>

\* thread::sleep(Duration::from_secs(2))
PollSleep ==
    /\ pc = "sleep"
    /\ pc' = "check"
    /\ UNCHANGED <<mp, processes, st, nextPid, term, ctx, cur, idx, waiting_time,
                   newp, errs, exits, old, deadAtCall, reapedAtCall, stale, mode, calls, argv, max_messages>>

\* -------------------------------------------------------------- environment
\* The supervisor has not ended (returned from main, panicked, or been killed);
\* the model follows the children only as long as their supervisor lives.
Running == pc \notin {"done", "panic", "killed", "config_error"}

\* A worker exits by itself (crash, or its max-messages cap).
ChildExits(p) ==
    /\ Running
    /\ st[p] = "alive"
    /\ exits < MaxExits
    /\ st' = [st EXCEPT ![p] = "zombie"]
    /\ exits' = exits + 1
    /\ UNCHANGED <<mp, processes, nextPid, term, pc, ctx, cur, idx, waiting_time,
                   newp, errs, old, deadAtCall, reapedAtCall, stale, mode, calls, argv, max_messages>>

\* A worker that was sent SIGTERM reacts to it and exits; one that never
\* reacts is a behaviour in which this step is never taken.
ChildReactsToSigterm(p) ==
    /\ Running
    /\ st[p] = "termed"
    /\ st' = [st EXCEPT ![p] = "zombie"]
    /\ UNCHANGED <<mp, processes, nextPid, term, pc, ctx, cur, idx, waiting_time,
                   newp, errs, exits, old, deadAtCall, reapedAtCall, stale, mode, calls, argv, max_messages>>

\* A termination signal reaches the supervisor.  The flag is registered
\* after the initial workers are started; before that the signal's default
\* action ends the supervisor.
TermSignal ==
    /\ mode = "daemon"
    /\ ~term
    /\ Running
    /\ IF ctx = "startup"
       THEN pc' = "killed" /\ UNCHANGED term
       ELSE term' = TRUE /\ UNCHANGED pc
    /\ UNCHANGED <<mp, processes, st, nextPid, ctx, cur, idx, waiting_time,
                   newp, errs, exits, old, deadAtCall, reapedAtCall, stale, mode, calls, argv, max_messages>>

\* ------------------------------------------------------------- API client
\* A client of worker.rs calls one of the public methods of a unit.
CallTerminate(u) ==
    /\ pc = "idle"
    /\ calls < MaxCalls
    /\ calls' = calls + 1
    /\ EnterTerminate(u)
    /\ UNCHANGED <<mp, processes, st, nextPid, term, waiting_time,
                   newp, errs, exits, stale, mode, argv, max_messages>>

CallEnsureRunning(u) ==
    /\ pc = "idle"
    /\ calls < MaxCalls
    /\ calls' = calls + 1
    /\ EnterEnsure(u)
    /\ UNCHANGED <<mp, processes, st, nextPid, term, waiting_time,
                   newp, errs, exits, stale, mode, argv, max_messages>>

\* ------------------------------------------- main.rs's own WorkerProcess
\* The process of the unit main's loops are at.
MainHandle == processes[cur][1]

InitMain ==
    /\ mp = [k \in {} |-> 1]
    /\ max_messages = DefaultMaxMessages
    /\ mode = "daemon"
    /\ processes = [u \in Units |-> <<>>]
    /\ st = [p \in Pid |-> "unborn"]
    /\ nextPid = 1
    /\ term = FALSE
    /\ pc = "m_run_consumer"
    /\ ctx = "startup"
    /\ cur = 1
    /\ idx = 1
    /\ waiting_time = 0
    /\ newp = <<>>
    /\ errs = 0
    /\ exits = 0
    /\ old = <<>>
    /\ deadAtCall = FALSE
    /\ reapedAtCall = FALSE
    /\ stale = FALSE
    /\ calls = 0
    /\ argv = [p \in Pid |-> <<>>]

\* The body of `for process in &mut processes` is done for unit cur: the next
\* unit's is_running, or the sleep at the end of the iteration.
MainAfterUnit ==
    /\ ctx' = "ensure"
    /\ IF cur < NUnits
       THEN cur' = cur + 1 /\ pc' = "m_is_running"
       ELSE cur' = cur /\ pc' = "m_sleep"

\* WorkerProcess::terminate returns: into restart, or into the shutdown loop
\* of main, after whose last unit main returns.
MainTerminateReturns ==
    IF ctx = "restart"
    THEN pc' = "m_run_consumer" /\ UNCHANGED <<ctx, cur>>
    ELSE IF cur < NUnits
         THEN pc' = "m_sigterm" /\ cur' = cur + 1 /\ UNCHANGED ctx
         ELSE pc' = "done" /\ UNCHANGED <<ctx, cur>>

\* run_consumer: the command is spawned; the handle becomes the unit's
\* process (collect() at startup, `self.process =` in restart, which drops
\* the handle it replaces).
MainRunConsumer ==
    /\ pc = "m_run_consumer"
    /\ nextPid <= MaxPid
    /\ st' = [st EXCEPT ![nextPid] = "alive"]
    /\ argv' = [argv EXCEPT ![nextPid] = <<"queue:consumers:start", Consumers[cur]>>]
    /\ processes' = [processes EXCEPT ![cur] = <<nextPid>>]
    /\ nextPid' = nextPid + 1
    /\ IF ctx = "startup"
       THEN IF cur < NUnits
            THEN cur' = cur + 1 /\ UNCHANGED <<pc, ctx>>
            ELSE cur' = 1 /\ ctx' = "ensure" /\ pc' = "m_check"
       ELSE MainAfterUnit
    /\ UNCHANGED <<mp, term, idx, waiting_time, newp, errs, exits, old, deadAtCall,
                   reapedAtCall, stale, mode, calls, max_messages>>

\* spawn() returns Err: expect() panics.
MainRunConsumerFails ==
    /\ pc = "m_run_consumer"
    /\ pc' = "panic"
    /\ UNCHANGED <<mp, processes, st, nextPid, term, ctx, cur, idx, waiting_time, newp, errs,
                   exits, old, deadAtCall, reapedAtCall, stale, mode, calls, argv, max_messages>>

\* `while !term.load(..)`: poll the processes, or leave the loop and
\* terminate them in order.
MainCheck ==
    /\ pc = "m_check"
    /\ stale' = term
    /\ cur' = 1
    /\ IF term
       THEN pc' = "m_sigterm" /\ ctx' = "terminate"
       ELSE pc' = "m_is_running" /\ ctx' = "ensure"
    /\ UNCHANGED <<mp, processes, st, nextPid, term, idx, waiting_time, newp, errs,
                   exits, old, deadAtCall, reapedAtCall, mode, calls, argv, max_messages>>

\* `if !process.is_running() { process.restart(&config); }`
MainIsRunning ==
    /\ pc = "m_is_running"
    /\ \E r \in TryWaitOutcomes(MainHandle) :
        /\ TryWaitEffect(MainHandle, r)
        /\ IF IsRunning(r)
           THEN MainAfterUnit
           ELSE pc' = "m_restart" /\ ctx' = "restart" /\ cur' = cur
    /\ UNCHANGED <<mp, processes, nextPid, term, idx, waiting_time, newp,
                   exits, old, deadAtCall, reapedAtCall, stale, mode, calls, argv, max_messages>>

\* restart: `if self.is_running() { self.terminate(); }`
MainRestartIsRunning ==
    /\ pc = "m_restart"
    /\ \E r \in TryWaitOutcomes(MainHandle) :
        /\ TryWaitEffect(MainHandle, r)
        /\ pc' = IF IsRunning(r) THEN "m_sigterm" ELSE "m_run_consumer"
    /\ UNCHANGED <<mp, processes, nextPid, term, ctx, cur, idx, waiting_time, newp,
                   exits, old, deadAtCall, reapedAtCall, stale, mode, calls, argv, max_messages>>

\* terminate: util::terminate_process_child(&self.process).unwrap(); no time
\* has been waited since.
MainSendSigterm ==
    /\ pc = "m_sigterm"
    /\ st' = IF st[MainHandle] = "alive" THEN [st EXCEPT ![MainHandle] = "termed"] ELSE st
    /\ waiting_time' = 0
    /\ pc' = "m_try_wait"
    /\ UNCHANGED <<mp, processes, nextPid, term, ctx, cur, idx, newp, errs,
                   exits, old, deadAtCall, reapedAtCall, stale, mode, calls, argv, max_messages>>

\* terminate: `if self.process.try_wait().unwrap().is_none()`; the unwrap
\* panics on Err.
MainTerminateTryWait ==
    /\ pc = "m_try_wait"
    /\ \E r \in TryWaitOutcomes(MainHandle) :
        /\ TryWaitEffect(MainHandle, r)
        /\ CASE r = "error" -> pc' = "panic" /\ UNCHANGED <<ctx, cur>>
             [] r = "running" -> pc' = "m_kill" /\ UNCHANGED <<ctx, cur>>
             [] r = "exited" -> MainTerminateReturns
    /\ UNCHANGED <<mp, processes, nextPid, term, idx, waiting_time, newp,
                   exits, old, deadAtCall, reapedAtCall, stale, mode, calls, argv, max_messages>>

\* terminate: self.process.kill().unwrap(); terminate returns without a wait.
MainKill ==
    /\ pc = "m_kill"
    /\ st' = IF Alive(MainHandle) THEN [st EXCEPT ![MainHandle] = "zombie"] ELSE st
    /\ MainTerminateReturns
    /\ UNCHANGED <<mp, processes, nextPid, term, idx, waiting_time, newp, errs,
                   exits, old, deadAtCall, reapedAtCall, stale, mode, calls, argv, max_messages>>

\* thread::sleep(Duration::from_secs(2))
MainSleep ==
    /\ pc = "m_sleep"
    /\ pc' = "m_check"
    /\ UNCHANGED <<mp, processes, st, nextPid, term, ctx, cur, idx, waiting_time, newp, errs,
                   exits, old, deadAtCall, reapedAtCall, stale, mode, calls, argv, max_messages>>

\* ------------------------------------------------------------ specifications
SupervisorStep ==
    \/ ValidateConfig
    \/ RunWorkerSpawn
    \/ RunWorkerSpawnFails
    \/ StartupCollect
    \/ RestartAssign
    \/ EnsureRunningIsRunning
    \/ EnsureRunningHealthy
    \/ TryStopGracefullyCheck
    \/ SendSigterm
    \/ GraceLoop
    \/ ForceKill
    \/ Reap
    \/ TerminateReturn

Environment ==
    \/ \E p \in Pid : ChildExits(p)
    \/ \E p \in Pid : ChildReactsToSigterm(p)

Next ==
    \/ SupervisorStep
    \/ MainLoopCheck
    \/ PollSleep
    \/ TermSignal
    \/ Environment

Spec == Init /\ [][Next]_vars

\* The supervisor is one thread that runs whenever it can: a step it can
\* take (a system call that returns, a loop decision, the end of a sleep) is
\* taken.  Nothing is assumed of the children or of the signal.
FairSpec == Spec /\ WF_vars(SupervisorStep \/ MainLoopCheck \/ PollSleep)

NextApi ==
    \/ SupervisorStep
    \/ \E u \in Units : CallTerminate(u)
    \/ \E u \in Units : CallEnsureRunning(u)
    \/ Environment

SpecApi == InitApi /\ [][NextApi]_vars

\* main() of main.rs over its own WorkerProcess.
MainStep ==
    \/ MainRunConsumer
    \/ MainRunConsumerFails
    \/ MainCheck
    \/ MainIsRunning
    \/ MainRestartIsRunning
    \/ MainSendSigterm
    \/ MainTerminateTryWait
    \/ MainKill
    \/ MainSleep

NextMain ==
    \/ MainStep
    \/ TermSignal
    \/ Environment

SpecMain == InitMain /\ [][NextMain]_vars

\* Both implementations of the worker unit: worker.rs's and main.rs's.
InitBoth == Init \/ InitMain

NextBoth == Next \/ MainStep

SpecBoth == InitBoth /\ [][NextBoth]_vars

\* run_worker by itself: the startup calls of main(), one per consumer, for
\* every configuration of the consumers and some values of max_messages.
MaxMessagesValues == {1, 250, DefaultMaxMessages}

InitRunWorker ==
    /\ mp \in UNION {[S -> ConfigValues] : S \in SUBSET Range(Consumers)}
    /\ max_messages \in MaxMessagesValues
    /\ mode = "daemon"
    /\ InitRest

NextRunWorker ==
    \/ ValidateConfig
    \/ RunWorkerSpawn
    \/ RunWorkerSpawnFails
    \/ StartupCollect

SpecRunWorker == InitRunWorker /\ [][NextRunWorker]_vars


\* ------------------------------------------------------------------- claims
\* The instance count the configuration asks for: the multiple_processes
\* value of the name, or 1 without one.
Configured(u) == IF Consumers[u] \in DOMAIN mp THEN mp[Consumers[u]] ELSE 1

\* A process the supervisor spawned and has done nothing to since: it is
\* alive, unless it has exited by itself in the meantime.
UntouchedStates == {"alive", "zombie"}

TerminateStates == {"stop", "sigterm", "grace", "kill", "reap"}

\* The supervisor takes a step (the children's steps change none of these).
SupervisorMoves == <<pc, cur, idx, waiting_time, newp, errs>>' # <<pc, cur, idx, waiting_time, newp, errs>>

\* C1: when startup completes (one run_worker call per consumer name), every
\* unit holds exactly as many handles as multiple_processes configures for
\* its name, or 1 without an entry; they are distinct processes, all alive
\* (but for one that has already exited by itself).
C1_StartupSpawnsInstanceCount ==
    [][(pc = "run_worker" /\ ctx = "startup" /\ pc' = "check") =>
        \A u \in Units :
            /\ Len(processes'[u]) = Configured(u)
            /\ Cardinality(Range(processes'[u])) = Configured(u)
            /\ \A k \in 1..Len(processes'[u]) : st'[processes'[u][k]] \in UntouchedStates
            /\ exits' = 0 => \A k \in 1..Len(processes'[u]) : st'[processes'[u][k]] = "alive"]_vars

\* Startup is over, no child has exited: A has its single instance and B
\* the three that are configured for it, all alive.
C1_Witness ==
    /\ pc = "check"
    /\ exits = 0 /\ errs = 0 /\ ~term
    /\ "A" \notin DOMAIN mp
    /\ "B" \in DOMAIN mp /\ mp["B"] = 3
    /\ Len(processes[1]) = 1 /\ Len(processes[2]) = 3
    /\ \A u \in Units : \A k \in 1..Len(processes[u]) : st[processes[u][k]] = "alive"

\* C2: an ensure_running call on a unit of N >= 1 instances of which one had
\* exited when the call was made never returns as a no-op; it restarts the
\* unit, and when it returns the unit holds N handles, none of them a handle
\* it held before the call, each a process spawned by this call and alive
\* (but for one that has already exited by itself).
C2_EnsureRunningRecyclesWholeUnit ==
    [][/\ (pc = "ensure" /\ idx > Len(processes[cur]) /\ <<pc, cur>>' # <<pc, cur>>)
            => ~deadAtCall
       /\ (pc = "run_worker" /\ ctx = "restart" /\ pc' \notin {"run_worker", "panic", "killed"})
            => /\ Len(processes'[cur]) = Configured(cur)
               /\ Cardinality(Range(processes'[cur])) = Configured(cur)
               /\ Range(processes'[cur]) \cap Range(old) = {}
               /\ \A k \in 1..Len(processes'[cur]) : st'[processes'[cur][k]] \in UntouchedStates
               /\ \A k \in 1..Len(old) : st'[old[k]] # "unborn"]_vars

\* ensure_running has just restarted B, which has three instances and one of
\* them had exited: B holds three new processes.
C2_Witness ==
    /\ pc = "sleep" /\ cur = 2
    /\ deadAtCall
    /\ Len(old) = 3 /\ Len(processes[2]) = 3
    /\ Range(processes[2]) \cap Range(old) = {}
    /\ \A k \in 1..3 : st[processes[2][k]] = "alive"
    /\ \A k \in 1..3 : st[old[k]] = "reaped"

\* C3: terminate does not return while a process of the unit is alive.
C3_TerminateLeavesNoneAlive ==
    (pc = "stop" /\ idx > Len(processes[cur])) =>
        \A k \in 1..Len(processes[cur]) : ~Alive(processes[cur][k])

\* C4: try_stop_gracefully reaches its blocking wait only for a process that
\* has exited or that it has force-killed after the grace period, so that
\* the wait, and with it terminate, returns.
C4_WaitFollowsExitOrForceKill ==
    pc = "reap" => ~Alive(Handle)

\* The grace loop itself is bounded: waiting_time counts whole poll
\* resolutions and never exceeds the grace period (25 sleeps of 20 ms).
GraceLoopBounded ==
    /\ waiting_time \in {k * PROCESS_GRACEFUL_POLL_RESOLUTION : k \in 0..25}
    /\ waiting_time <= PROCESS_GRACEFUL_KILL_PERIOD
    /\ pc = "kill" => waiting_time = PROCESS_GRACEFUL_KILL_PERIOD

\* Every process the unit holds has been waited for.
AllReaped(u) == \A k \in 1..Len(processes[u]) : st[processes[u][k]] = "reaped"

\* C5: terminate on a unit whose processes had all been terminated (stopped
\* and reaped) when it was called sends no SIGTERM, force-kills nothing, never
\* blocks or panics, and leaves the unit's handles and processes as they were.
C5_SecondTerminateIsNoOp ==
    /\ []((pc \in TerminateStates /\ ctx = "terminate" /\ reapedAtCall)
            => pc = "stop" /\ AllReaped(cur) /\ ENABLED SupervisorStep)
    /\ [][(pc = "stop" /\ ctx = "terminate" /\ reapedAtCall /\ SupervisorMoves)
            => /\ pc' \in {"stop", "idle"}
               /\ processes' = processes
               /\ \A k \in 1..Len(processes[cur]) : st'[processes[cur][k]] = st[processes[cur][k]]
               /\ errs' = errs /\ nextPid' = nextPid]_vars

\* The second call, a terminate on a unit of three that a first terminate has
\* stopped and reaped, is half way through the handles.
C5_Witness ==
    /\ mode = "api" /\ calls = 2
    /\ pc = "stop" /\ ctx = "terminate" /\ idx = 2
    /\ Len(processes[cur]) = 3
    /\ reapedAtCall /\ AllReaped(cur)

\* C6: no process is held by two units, and a step of the supervisor on one
\* unit (spawning, polling, restarting or terminating it) leaves every other
\* unit's handles and the state of their processes as they were.
C6_UnitsIndependent ==
    /\ [](\A u, v \in Units : u # v =>
            /\ Range(processes[u]) \cap Range(processes[v]) = {}
            /\ (v # cur => Range(newp) \cap Range(processes[v]) = {}))
    /\ [][SupervisorMoves =>
            \A v \in Units : v # cur =>
                /\ processes'[v] = processes[v]
                /\ \A k \in 1..Len(processes[v]) : st'[processes[v][k]] = st[processes[v][k]]]_vars

\* B, three instances, is being restarted and the supervisor waits for one of
\* its old processes to exit, while A's process is alive and unsignaled.
C6_Witness ==
    /\ ctx = "restart" /\ pc = "grace" /\ cur = 2
    /\ Len(processes[2]) = 3
    /\ Len(processes[1]) = 1 /\ st[processes[1][1]] = "alive"

\* C7: a spawn failure during a restart does not end the supervisor.
C7_RestartSpawnFailureNotFatal ==
    ~(pc = "panic" /\ ctx = "restart")

\* C8: when a spawn fails during startup and the supervisor ends, none of the
\* workers it has spawned is left running.
C8_StartupFailureLeavesNoWorker ==
    (pc = "panic" /\ ctx = "startup") => \A p \in Pid : ~Alive(p)

\* A restart begins: ensure_running has found an instance not running.
RestartBegins == pc = "ensure" /\ pc' = "stop"

\* C9 as stated: once the flag is set no restart begins (one that was in
\* flight when it was set is past its beginning), here already for the
\* behaviours in which no try_wait call fails.
C9_NoRestartOnceFlagSet ==
    [][(RestartBegins /\ errs' = 0) => ~term]_vars

\* C9 as amended: the flag takes effect when the loop condition reads it.  A
\* restart begins, and a worker is spawned, only in a poll iteration whose
\* loop condition read the flag unset; once it has read the flag set, the
\* supervisor only terminates.
C9_NoRestartOnceFlagRead ==
    /\ [][RestartBegins => ~stale]_vars
    /\ [](stale => term /\ ctx = "terminate" /\ pc \in TerminateStates \cup {"done"})
    /\ []((pc = "run_worker" /\ ctx = "restart") => ~stale)

\* The flag was set during a poll iteration, a unit was restarted after it in
\* the same iteration, and now the loop has read the flag and is terminating.
C9_Witness ==
    /\ stale /\ term
    /\ ctx = "terminate" /\ pc = "grace"
    /\ nextPid > 5

\* C10: when the supervisor exits after the flag was set, no process of any
\* unit is alive.
C10_ExitLeavesNoneAlive ==
    pc = "done" => \A u \in Units : \A k \in 1..Len(processes[u]) : ~Alive(processes[u][k])

\* The numerals of the partition indices, for comparison with the arguments.
Numerals == <<"0", "1", "2", "3">>

\* The arguments every instance of unit u gets: the subcommand, the worker
\* name and the max-messages cap.
CommonArgs(u, a) ==
    /\ Len(a) >= 4
    /\ a[1] = "queue:consumers:start"
    /\ a[2] = Consumers[u]
    /\ a[3] = "--max-messages"
    /\ a[4] = to_string(max_messages)

\* C11: a unit run_worker has built for a count N > 1 holds N instances whose
\* partition-index arguments are exactly the numerals of 0..N-1, one each,
\* every one with the multi-process marker and none with the single-thread
\* marker; for N = 1 it holds one instance with the single-thread marker and
\* neither the multi-process marker nor an index; every instance is given the
\* worker name and the max-messages cap.
C11_RunWorkerArguments ==
    \A u \in Units :
        (pc = "check" \/ cur > u) =>
            LET N == Configured(u)
                h == processes[u]
            IN  /\ \A k \in 1..Len(h) : CommonArgs(u, argv[h[k]])
                /\ N > 1 =>
                    /\ Len(h) = N
                    /\ \A k \in 1..N :
                        /\ argv[h[k]][5] = "--multi-process"
                        /\ Len(argv[h[k]]) = 6
                        /\ "--single-thread" \notin Range(argv[h[k]])
                    /\ {argv[h[k]][6] : k \in 1..N} = {Numerals[i + 1] : i \in 0..(N - 1)}
                    /\ Cardinality({argv[h[k]][6] : k \in 1..N}) = N
                /\ N = 1 =>
                    /\ Len(h) = 1
                    /\ argv[h[1]] = <<"queue:consumers:start", Consumers[u], "--max-messages",
                                      to_string(max_messages), "--single-thread">>
                    /\ "--multi-process" \notin Range(argv[h[1]])

\* Both cases at once: unit A with its single instance, unit B with three, and
\* the default cap.
C11_Witness ==
    /\ pc = "check"
    /\ Configured(1) = 1
    /\ Configured(2) = 3
    /\ max_messages = 10000
    /\ argv[processes[1][1]][4] = "10000"
    /\ argv[processes[2][3]] = <<"queue:consumers:start", "B", "--max-messages", "10000",
                                 "--multi-process", "2">>

\* C17: validate returns an error whenever some multiple_processes value is
\* not greater than zero, zero included; so once the configuration has been
\* accepted, every value is positive and no unit is started for an instance
\* count below 1.
C17_ValidateAcceptsOnlyPositive ==
    pc \notin {"config", "config_error"} =>
        /\ \A k \in DOMAIN mp : mp[k] > 0
        /\ \A u \in Units : NumberOfProcesses(u) >= 1

\* C12: ensure_running leaves a healthy unit alone: a restart, and with it
\* every signal, kill and spawn ensure_running makes, begins only when at
\* least one instance of the unit is not alive.
C12_RestartOnlyWhenSomeInstanceNotAlive ==
    [][RestartBegins => \E k \in 1..Len(processes[cur]) : ~Alive(processes[cur][k])]_vars

\* C13: in a restart every old instance has been terminated before a new one
\* is spawned: while run_worker runs for the restart, and when the new handles
\* are in place, no process the unit held at the call is alive, so that no old
\* and new instance of one name are alive together.
C13_OldInstancesGoneBeforeSpawn ==
    (pc = "run_worker" /\ ctx = "restart") => \A k \in 1..Len(old) : ~Alive(old[k])

\* The process a signal is sent to at the supervisor's position, if it is at
\* one of the positions where it sends one.
SigtermPoints == {"sigterm", "m_sigterm"}
KillPoints == {"kill", "m_kill"}
SignalTarget == IF pc \in {"m_sigterm", "m_kill"} THEN MainHandle ELSE Handle

\* C14: the supervisor force-kills a process only after it has sent it SIGTERM
\* and has then waited the whole grace period with the process still running,
\* in try_stop_gracefully of worker.rs and in terminate of main.rs alike.
C14_ForceKillOnlyAfterGracePeriod ==
    pc \in KillPoints =>
        /\ st[SignalTarget] \in {"termed", "zombie"}
        /\ waiting_time >= PROCESS_GRACEFUL_KILL_PERIOD

\* C15: no handle is replaced or dropped while its process is unreaped: when
\* a restart is about to spawn the new processes the unit's old ones have all
\* been waited for, and when main returns every process ever spawned has
\* been, in worker.rs and in main.rs alike; here already for the behaviours
\* in which no try_wait call fails.
C15_NoHandleDroppedUnreaped ==
    errs = 0 =>
        /\ (pc \in {"run_worker", "m_run_consumer"} /\ ctx = "restart") =>
                \A k \in 1..Len(processes[cur]) : st[processes[cur][k]] = "reaped"
        /\ pc = "done" => \A p \in Pid : st[p] \in {"unborn", "reaped"}

\* C19: a SIGTERM or SIGKILL goes only to a process the supervisor has not
\* reaped yet: one that is alive, or one that has exited and is still to be
\* waited for.
C19_NoSignalToReapedProcess ==
    pc \in SigtermPoints \cup KillPoints =>
        st[SignalTarget] \in {"alive", "termed", "zombie"}

\* The child exits by itself between the is_running check and the SIGTERM of
\* try_stop_gracefully, and between the try_wait and the kill of main.rs's
\* terminate.
C19_Witness ==
    \/ pc = "sigterm" /\ st[Handle] = "zombie" /\ exits = 1
    \/ pc = "m_kill" /\ st[MainHandle] = "zombie" /\ exits = 1

\* Unit u has been built: startup has passed it.
Built(u) == pc \notin {"config", "config_error"} /\ (ctx # "startup" \/ cur > u)

FullyAlive(u) ==
    /\ Len(processes[u]) = Configured(u)
    /\ \A k \in 1..Len(processes[u]) : Alive(processes[u][k])

\* C18: in the poll loop, with the supervisor scheduled fairly, a unit one of
\* whose instances has exited is restarted: unless the flag gets set, the unit
\* eventually holds instance_count live processes again.
C18_ExitLeadsToRestart ==
    \A u \in Units :
        (ctx # "startup" /\ ~term /\ \E k \in 1..Len(processes[u]) : st[processes[u][k]] = "zombie")
            ~> (term \/ FullyAlive(u))

\* C20: a termination signal that arrives once the first worker has been
\* spawned, the rest of the startup included, leaves no worker behind: when
\* the signal has ended the supervisor no process it has spawned is alive.
C20_SignalLeavesNoOrphan ==
    pc = "killed" => \A p \in Pid : ~Alive(p)
====
